---------------------------- MODULE Spec2Model ----------------------------
(***************************************************************************)
(* A model of the BitArray library: the fixed-width bit vector             *)
(* BitArray<N,T> (include/BitArray.hpp), the GF(2) matrix type and its     *)
(* elementary operations (LA/matrix.hpp), the population-index iterator    *)
(* (BitArray/iterators.hpp) and the PLU decomposition (LA/decompose.hpp).  *)
(*                                                                         *)
(* A bit vector is its chunk array m_arr, a function from the chunk index  *)
(* 0 .. nchunks-1 to a chunk value 0 .. 2^chunkbits - 1.  The template     *)
(* parameters N (number of bits) and T (chunk type, here its width W) are  *)
(* passed to every operator.  Chunk widths are scaled down: 2 stands for   *)
(* the chunk types narrower than int (uint8_t, uint16_t), whose shifts are *)
(* computed after integer promotion, and 4 for those that are not promoted *)
(* (uint32_t, uint64_t), where a shift by the full width is undefined.     *)
(***************************************************************************)
EXTENDS Integers, Sequences, FiniteSets, TLC

VARIABLES
    bvN,      \* SpecBV: template parameter N of the vector under test
    bvW,      \* SpecBV: chunk width of the vector under test
    bvArr,    \* SpecBV: m_arr of the vector under test
    bvPre,    \* SpecBV: m_arr before the last increment (<<>> otherwise)
    bvRet,    \* SpecBV: m_arr returned by the last postfix ++ (<<>> otherwise)
    bvOp,     \* SpecBV: the last operation applied
    eqN,      \* SpecEq: the common number of bits N
    eqWa,     \* SpecEq: chunk width w1 of the first vector
    eqWb,     \* SpecEq: chunk width w2 of the second vector
    eqA,      \* SpecEq: m_arr of the BitArray<N,w1>
    eqB,      \* SpecEq: m_arr of the BitArray<N,w2>
    eqRef,    \* SpecEq: the reference bit set, the set of its set-bit indices
    eqOp,     \* SpecEq: the last operation applied
    pluM,     \* SpecPLU: number of rows m of the decomposed matrix
    pluN,     \* SpecPLU: number of columns n of the decomposed matrix
    pluW,     \* SpecPLU: chunk width of every vector
    pluF,     \* SpecPLU: pivot strategy, "plu" or "plu_lnr"
    pluMat0,  \* SpecPLU: the matrix as passed in
    pluMat,   \* SpecPLU: mat, eliminated in place
    pluResult, \* SpecPLU: result[0] (forward) and result[1] (inverse)
    pluI,     \* SpecPLU: the outer loop index i
    pluPc,    \* SpecPLU: "loop" inside plu_impl, "done" once it returned
    pluTmat,  \* SpecPLU: tmat of the iteration just run (<<>> when it built none)
    mulMode,  \* SpecMul: storage mode of both factors
    mulW,     \* SpecMul: chunk width of every vector
    mulR,     \* SpecMul: rows of the left factor
    mulK,     \* SpecMul: columns of the left factor, rows of the right
    mulC,     \* SpecMul: columns of the right factor
    mulLhs,   \* SpecMul: m_vecs of the left factor
    mulRhs,   \* SpecMul: m_vecs of the right factor
    mulProd,  \* SpecMul: m_vecs of lhs * rhs (<<>> before the product)
    mulOp,    \* SpecMul: the last operation applied
    elMode,   \* SpecEl: storage mode of the matrix
    elW,      \* SpecEl: chunk width of every vector
    elRows,   \* SpecEl: number of rows
    elCols,   \* SpecEl: number of columns
    elMat,    \* SpecEl: m_vecs of the matrix
    elPre,    \* SpecEl: m_vecs before the last operation
    elOp,     \* SpecEl: the last operation applied
    elArgs,   \* SpecEl: the arguments of the last operation
    elRet,    \* SpecEl: what the last operation returned or threw
    popN,     \* SpecPop: number of bits N of the traversed vector
    popW,     \* SpecPop: chunk width of the traversed vector
    popV,     \* SpecPop: m_arr of the traversed vector
    popIt,    \* SpecPop: the PopIterator, its m_pos and m_value
    popSeen,  \* SpecPop: the indices dereferenced so far, in order
    popTester, \* SpecPop: a copy of the vector with the visited bits reset
    popAux,   \* SpecPop: a zero vector with the visited bits set
    popPc,    \* SpecPop: "loop" while itr != end(), then "done"
    popPass,  \* SpecPop: 1 for the first range over the vector, 2 for the second
    popFirst, \* SpecPop: the indices the first range yielded (<<>> during it)
    fnN,      \* SpecFn: number of bits N of the argument vector
    fnW,      \* SpecFn: chunk width of the argument vector
    fnArr,    \* SpecFn: m_arr of the argument vector
    fnOp,     \* SpecFn: the member function called
    fnArgs,   \* SpecFn: its arguments
    fnOut,    \* SpecFn: its result
    wdW,      \* SpecWord: width of the unsigned type
    wdX,      \* SpecWord: the argument word
    wdOp,     \* SpecWord: the function called
    wdOut     \* SpecWord: its result

bvVars == <<bvN, bvW, bvArr, bvPre, bvRet, bvOp>>
eqVars == <<eqN, eqWa, eqWb, eqA, eqB, eqRef, eqOp>>

pluVars ==
    <<pluM, pluN, pluW, pluF, pluMat0, pluMat, pluResult, pluI, pluPc, pluTmat>>
mulVars == <<mulMode, mulW, mulR, mulK, mulC, mulLhs, mulRhs, mulProd, mulOp>>
elVars == <<elMode, elW, elRows, elCols, elMat, elPre, elOp, elArgs, elRet>>
popVars ==
    <<popN, popW, popV, popIt, popSeen, popTester, popAux, popPc, popPass,
      popFirst>>
fnVars == <<fnN, fnW, fnArr, fnOp, fnArgs, fnOut>>
wdVars == <<wdW, wdX, wdOp, wdOut>>

vars == <<bvVars, eqVars, pluVars, mulVars, elVars, popVars, fnVars, wdVars>>

\* The variables of the specifications other than the named one.
nonBV == <<eqVars, pluVars, mulVars, elVars, popVars, fnVars, wdVars>>
nonEq == <<bvVars, pluVars, mulVars, elVars, popVars, fnVars, wdVars>>
nonPLU == <<bvVars, eqVars, mulVars, elVars, popVars, fnVars, wdVars>>
nonMul == <<bvVars, eqVars, pluVars, elVars, popVars, fnVars, wdVars>>
nonEl == <<bvVars, eqVars, pluVars, mulVars, popVars, fnVars, wdVars>>
nonPop == <<bvVars, eqVars, pluVars, mulVars, elVars, fnVars, wdVars>>
nonFn == <<bvVars, eqVars, pluVars, mulVars, elVars, popVars, wdVars>>
nonWd == <<bvVars, eqVars, pluVars, mulVars, elVars, popVars, fnVars>>

\* The variables of a specification that is not running.
BVIdle ==
    /\ bvN = 0 /\ bvW = 0 /\ bvArr = <<>> /\ bvPre = <<>> /\ bvRet = <<>>
    /\ bvOp = "idle"

EqIdle ==
    /\ eqN = 0 /\ eqWa = 0 /\ eqWb = 0 /\ eqA = <<>> /\ eqB = <<>>
    /\ eqRef = {} /\ eqOp = "idle"

PLUIdle ==
    /\ pluM = 0 /\ pluN = 0 /\ pluW = 0 /\ pluF = "idle"
    /\ pluMat0 = <<>> /\ pluMat = <<>> /\ pluResult = <<>>
    /\ pluI = 0 /\ pluPc = "idle" /\ pluTmat = <<>>

MulIdle ==
    /\ mulMode = "idle" /\ mulW = 0 /\ mulR = 0 /\ mulK = 0 /\ mulC = 0
    /\ mulLhs = <<>> /\ mulRhs = <<>> /\ mulProd = <<>> /\ mulOp = "idle"

ElIdle ==
    /\ elMode = "idle" /\ elW = 0 /\ elRows = 0 /\ elCols = 0
    /\ elMat = <<>> /\ elPre = <<>> /\ elOp = "idle" /\ elArgs = <<>>
    /\ elRet = <<>>

PopIdle ==
    /\ popN = 0 /\ popW = 0 /\ popV = <<>> /\ popIt = <<>>
    /\ popSeen = <<>> /\ popTester = <<>> /\ popAux = <<>> /\ popPc = "idle"
    /\ popPass = 0 /\ popFirst = <<>>

FnIdle ==
    /\ fnN = 0 /\ fnW = 0 /\ fnArr = <<>> /\ fnOp = "idle"
    /\ fnArgs = <<>> /\ fnOut = <<>>

WdIdle ==
    /\ wdW = 0 /\ wdX = 0 /\ wdOp = "idle" /\ wdOut = 0

---------------------------------------------------------------------------
(* Bounds of the model. *)

\* Largest number of bits N of a vector under test.
MaxBits == 5

\* The chunk widths of the model.
ChunkWidths == {2, 4}

\* The chunk widths that stand for types of rank below int.
NarrowChunks == {2}

\* What a shift by the full width of an unpromoted chunk type may yield:
\* all bits shifted out, or the count taken modulo the width (no shift).
UBOutcomes == {"zero", "wrap"}

---------------------------------------------------------------------------
(* Arithmetic on chunk values. *)

Pow2(n) == 2 ^ n

Bit(x, i) == (x \div Pow2(i)) % 2

RECURSIVE BitAndRec(_, _, _)
BitAndRec(x, y, w) ==
    IF w = 0 THEN 0
    ELSE (x % 2) * (y % 2) + 2 * BitAndRec(x \div 2, y \div 2, w - 1)

RECURSIVE BitOrRec(_, _, _)
BitOrRec(x, y, w) ==
    IF w = 0 THEN 0
    ELSE (IF (x % 2) + (y % 2) > 0 THEN 1 ELSE 0)
         + 2 * BitOrRec(x \div 2, y \div 2, w - 1)

RECURSIVE BitXorRec(_, _, _)
BitXorRec(x, y, w) ==
    IF w = 0 THEN 0
    ELSE (((x % 2) + (y % 2)) % 2) + 2 * BitXorRec(x \div 2, y \div 2, w - 1)

\* x & y, x | y, x ^ y, ~x on chunk_type of width W.
AND(x, y, W) == BitAndRec(x, y, W)
OR(x, y, W) == BitOrRec(x, y, W)
XOR(x, y, W) == BitXorRec(x, y, W)
NOT(x, W) == (Pow2(W) - 1) - x

\* static_cast<chunk_type>(x << k) and x >> k for 0 <= k < chunkbits.
SHL(x, k, W) == (x * Pow2(k)) % Pow2(W)
SHR(x, k) == x \div Pow2(k)

\* Whether chunk_type is promoted to int before a shift.
Promoted(W) == W \in NarrowChunks

\* static_cast<chunk_type>(x << k) for 0 <= k <= chunkbits.  For k = chunkbits
\* a promoted chunk is shifted inside int and truncated to 0; an unpromoted one
\* is undefined behaviour, resolved by ub.
SHLX(x, k, W, ub) ==
    IF k < W THEN SHL(x, k, W)
    ELSE IF Promoted(W) \/ ub = "zero" THEN 0 ELSE x

\* x >> k for 0 <= k <= chunkbits, likewise.
SHRX(x, k, W, ub) ==
    IF k < W THEN SHR(x, k)
    ELSE IF Promoted(W) \/ ub = "zero" THEN 0 ELSE x

Min(a, b) == IF a < b THEN a ELSE b

---------------------------------------------------------------------------
(* BitArray<N,T>: the class constants. *)

nchunks(N, W) == (N + W - 1) \div W
max_index(N, W) == nchunks(N, W) - 1
endbits(N, W) == N % W
nzero(W) == Pow2(W) - 1
ChunkIdx(N, W) == 0 .. (nchunks(N, W) - 1)
ChunkVals(W) == 0 .. nzero(W)

lowmask(n, W) ==
    IF 0 < n
    THEN (IF n < W THEN SHR(nzero(W), W - n) ELSE nzero(W))
    ELSE 0

chunk_traits_mask(N, W, i) ==
    IF i < nchunks(N, W)
    THEN (IF endbits(N, W) > 0 /\ i + 1 = nchunks(N, W)
          THEN lowmask(endbits(N, W), W)
          ELSE nzero(W))
    ELSE 0

get_mask(N, W, i) == chunk_traits_mask(N, W, i)

---------------------------------------------------------------------------
(* BitArray<N,T>: constructors. *)

\* BitArray(): m_arr{} is zero-initialised.
BitArray_default(N, W) == [i \in ChunkIdx(N, W) |-> 0]

\* BitArray(chunk_type x0): the first chunk masked, the others zero.
BitArray_chunk(N, W, x0) ==
    [i \in ChunkIdx(N, W) |->
        IF i = 0 THEN AND(x0, chunk_traits_mask(N, W, 0), W) ELSE 0]

\* Variant of RoundLast: the last chunk is left as given.
RoundLast_unmasked(N, W, arr) == arr

\* The last chunk of a chunk sequence cut to endbits bits:
\* m_arr[nchunks-1] &= lowmask<endbits>::mask.
RoundLast(N, W, arr) ==
    [i \in ChunkIdx(N, W) |->
        IF i = nchunks(N, W) - 1
        THEN AND(arr[i], lowmask(endbits(N, W), W), W)
        ELSE arr[i]]

\* BitArray(chunk_type x0, chunk_type x1, Ts... xs) with k = 2 + sizeof...(Ts)
\* arguments xs[0] .. xs[k-1], k <= nchunks: the overload without rounding is
\* chosen when k < nchunks or endbits = 0, the one with rounding otherwise.
BitArray_chunks(N, W, k, xs) ==
    LET raw == [i \in ChunkIdx(N, W) |-> IF i < k THEN xs[i] ELSE 0]
    IN  IF k = nchunks(N, W) /\ endbits(N, W) > 0
        THEN RoundLast(N, W, raw)
        ELSE raw

\* BitArray<N,chunk_type>(static_cast<chunk_type>(e(is))...) over
\* index_sequence<nchunks>: one argument selects BitArray(chunk_type), two or
\* more select the variadic constructor.
BitArray_pack(N, W, xs) ==
    IF nchunks(N, W) = 1
    THEN BitArray_chunk(N, W, xs[0])
    ELSE BitArray_chunks(N, W, nchunks(N, W), xs)

---------------------------------------------------------------------------
(* BitArray<N,T>: bitwise operators. *)

\* operator&=, operator|=, operator^=
and_assign(N, W, arr, other) ==
    [i \in ChunkIdx(N, W) |-> AND(arr[i], other[i], W)]

or_assign(N, W, arr, other) ==
    [i \in ChunkIdx(N, W) |-> OR(arr[i], other[i], W)]

xor_assign(N, W, arr, other) ==
    [i \in ChunkIdx(N, W) |-> XOR(arr[i], other[i], W)]

\* operator~ through not_impl
not_impl(N, W, arr) ==
    BitArray_pack(N, W, [i \in ChunkIdx(N, W) |-> NOT(arr[i], W)])

\* operator<< through lshift_impl
lshift_impl(N, W, arr, n, ub) ==
    LET gpos == n \div W
        lpos == n % W
    IN  BitArray_pack(N, W,
            [i \in ChunkIdx(N, W) |->
                IF i > gpos
                THEN AND(OR(SHL(arr[i - gpos], lpos, W),
                            SHRX(arr[i - gpos - 1], W - lpos, W, ub), W),
                         chunk_traits_mask(N, W, i), W)
                ELSE IF i = gpos
                     THEN AND(SHL(arr[0], lpos, W), chunk_traits_mask(N, W, i), W)
                     ELSE 0])

\* operator>> through rshift_impl
rshift_impl(N, W, arr, n, ub) ==
    LET gpos == n \div W
        lpos == n % W
    IN  BitArray_pack(N, W,
            [i \in ChunkIdx(N, W) |->
                IF i + gpos < nchunks(N, W) - 1
                THEN OR(SHR(arr[i + gpos], lpos),
                        SHLX(arr[i + gpos + 1], W - lpos, W, ub), W)
                ELSE IF i + gpos = nchunks(N, W) - 1
                     THEN SHR(arr[nchunks(N, W) - 1], lpos)
                     ELSE 0])

\* Variant of increment_impl: a chunk that overflows is not cleared before the
\* carry moves on.
RECURSIVE increment_impl_keep(_, _, _, _)
increment_impl_keep(N, W, arr, i) ==
    IF i < max_index(N, W)
    THEN IF arr[i] = nzero(W)
         THEN increment_impl_keep(N, W, arr, i + 1)
         ELSE [arr EXCEPT ![i] = arr[i] + 1]
    ELSE IF arr[i] = nzero(W)
         THEN [arr EXCEPT ![i] = 0]
         ELSE [arr EXCEPT ![i] =
                  AND(arr[i] + 1, chunk_traits_mask(N, W, nchunks(N, W)), W)]

\* increment_impl(integral_constant<i>): the overload for i < max_index carries
\* into the next chunk when m_arr[i] is numeric_limits<chunk_type>::max(); the
\* overload for max_index masks with chunk_traits<nchunks>::mask.
RECURSIVE increment_impl(_, _, _, _)
increment_impl(N, W, arr, i) ==
    IF i < max_index(N, W)
    THEN IF arr[i] = nzero(W)
         THEN increment_impl(N, W, [arr EXCEPT ![i] = 0], i + 1)
         ELSE [arr EXCEPT ![i] = arr[i] + 1]
    ELSE IF arr[i] = nzero(W)
         THEN [arr EXCEPT ![i] = 0]
         ELSE [arr EXCEPT ![i] =
                  AND(arr[i] + 1, chunk_traits_mask(N, W, nchunks(N, W)), W)]

\* operator++() (prefix)
increment(N, W, arr) == increment_impl(N, W, arr, 0)

---------------------------------------------------------------------------
(* BitArray<N,T>: basic operations. *)

\* Variant of set(pos, value): the range check compares pos with the storage
\* size nchunks*chunkbits instead of numbits.
set_storage_checked(N, W, arr, pos, value) ==
    IF pos >= nchunks(N, W) * W THEN arr
    ELSE LET gpos == pos \div W
             lpos == pos % W
         IN  IF value
             THEN [arr EXCEPT ![gpos] = OR(arr[gpos], SHL(1, lpos, W), W)]
             ELSE [arr EXCEPT ![gpos] = AND(arr[gpos], NOT(SHL(1, lpos, W), W), W)]

\* set(pos, value)
set(N, W, arr, pos, value) ==
    IF pos >= N THEN arr
    ELSE LET gpos == pos \div W
             lpos == pos % W
         IN  IF value
             THEN [arr EXCEPT ![gpos] = OR(arr[gpos], SHL(1, lpos, W), W)]
             ELSE [arr EXCEPT ![gpos] = AND(arr[gpos], NOT(SHL(1, lpos, W), W), W)]

\* reset(pos)
reset(N, W, arr, pos) == set(N, W, arr, pos, FALSE)

\* set(): *this = ~(BitArray{})
set_all(N, W, arr) == not_impl(N, W, BitArray_default(N, W))

\* reset(): *this = BitArray{}
reset_all(N, W, arr) == BitArray_default(N, W)

\* flip(): *this ^= ~(BitArray{})
flip_all(N, W, arr) ==
    xor_assign(N, W, arr, not_impl(N, W, BitArray_default(N, W)))

\* flip(pos): no range check on pos.
flip(N, W, arr, pos) ==
    LET gpos == pos \div W
        lpos == pos % W
    IN  [arr EXCEPT ![gpos] = XOR(arr[gpos], SHL(1, lpos, W), W)]

\* test(pos): the guard is pos > numbits.
test(N, W, arr, pos) ==
    IF pos > N THEN FALSE
    ELSE LET gpos == pos \div W
             lpos == pos % W
         IN  AND(arr[gpos], SHL(1, lpos, W), W) # 0

\* test(pos) for every pos.  For pos = numbits with endbits = 0 the guard
\* pos > numbits lets the call through and it reads m_arr[nchunks], one chunk
\* past the array (gpos = nchunks, lpos = 0): undefined behaviour, resolved by
\* the chunk value oob found there.
test_ub(N, W, arr, pos, oob) ==
    IF pos = N /\ endbits(N, W) = 0
    THEN AND(oob, SHL(1, 0, W), W) # 0
    ELSE test(N, W, arr, pos)

\* lowcut(n) through lowcut_impl
lowcut(N, W, arr, n) ==
    IF n >= N THEN BitArray_default(N, W)
    ELSE LET gpos == n \div W
             lpos == n % W
             mask == SHL(nzero(W), lpos, W)
         IN  BitArray_pack(N, W,
                 [i \in ChunkIdx(N, W) |->
                     IF i > gpos THEN arr[i]
                     ELSE IF i = gpos THEN AND(arr[i], mask, W) ELSE 0])

\* lowpass(n) through lowpass_impl
lowpass(N, W, arr, n) ==
    IF n >= N THEN arr
    ELSE LET gpos == n \div W
             lpos == n % W
             mask == IF lpos > 0 THEN SHR(nzero(W), W - lpos) ELSE 0
         IN  BitArray_pack(N, W,
                 [i \in ChunkIdx(N, W) |->
                     IF i < gpos THEN arr[i]
                     ELSE IF i = gpos THEN AND(arr[i], mask, W) ELSE 0])

\* BitArray<N,T>(BitArray<M,T> const& src) for M < N: the nchunks of src are
\* copied to the low chunks, the remaining chunks are zero-initialised.
BitArray_smaller(N, W, M, src) ==
    [i \in ChunkIdx(N, W) |-> IF i < nchunks(M, W) THEN src[i] ELSE 0]

\* replace(i, src, wid) for a source BitArray<M,T>, M <= N: src and the mask
\* of the wid low bits are widened to M+chunkbits bits, shifted by lpos and
\* written over the chunks gpos .. gpos+num-1.
replace(N, W, arr, M, i, src, wid, ub) ==
    IF i >= N THEN arr
    ELSE LET gpos == i \div W
             lpos == i % W
             K == M + W
             src_adj == lshift_impl(K, W, BitArray_smaller(K, W, M, src), lpos, ub)
             ones == flip_all(M, W, BitArray_default(M, W))
             mask == lshift_impl(K, W,
                         BitArray_smaller(K, W, M, lowpass(M, W, ones, wid)),
                         lpos, ub)
             num == Min(nchunks(N, W) - gpos, (M + lpos + W - 1) \div W)
         IN  [c \in ChunkIdx(N, W) |->
                 IF c >= gpos /\ c - gpos < num
                 THEN OR(AND(arr[c], NOT(mask[c - gpos], W), W),
                         src_adj[c - gpos], W)
                 ELSE arr[c]]

\* slice<n>(i) for n < N through slice_impl: chunk is of the result is chunk
\* gpos+is shifted right by lpos, joined with the low bits of chunk gpos+is+1.
slice_impl(N, W, arr, n, i, ub) ==
    LET gpos == i \div W
        lpos == i % W
    IN  BitArray_pack(n, W,
            [is \in ChunkIdx(n, W) |->
                IF gpos + is >= nchunks(N, W) THEN 0
                ELSE OR(SHR(arr[gpos + is], lpos),
                        IF gpos + is + 1 >= nchunks(N, W) THEN 0
                        ELSE SHLX(arr[gpos + is + 1], W - lpos, W, ub), W)])

\* Whether slice<n>(i) compiles: for n >= N it evaluates BitArray<n>(*this),
\* a vector of default_chunk_t (unsigned long long, not promoted), so its
\* chunk_type must be that type.
Sliceable(N, W, n) == n >= N => ~Promoted(W)

\* slice<n>(i): BitArray<n>(*this) >> i for n >= N, slice_impl for n < N.
slice(N, W, arr, n, i, ub) ==
    IF n >= N
    THEN rshift_impl(n, W,
             IF n > N THEN BitArray_smaller(n, W, N, arr) ELSE arr, i, ub)
    ELSE slice_impl(N, W, arr, n, i, ub)

---------------------------------------------------------------------------
(* SpecBV: one BitArray<N,T> driven through its mutating operations. *)

\* BitArray{}.set(i) for every i of S, in increasing order of i.
RECURSIVE FromBits(_, _, _, _)
FromBits(N, W, S, i) ==
    IF i >= N THEN BitArray_default(N, W)
    ELSE set(N, W, FromBits(N, W, S, i + 1), i, i \in S)

\* The vectors of type BitArray<N,T> used as right-hand operands.
Operands(N, W) == {FromBits(N, W, S, 0) : S \in SUBSET (0 .. (N - 1))}

\* Positions and shift amounts passed to the operations, in range and beyond.
Positions(N) == 0 .. (N + 1)
ShiftAmounts(N, W) == 0 .. (N + W)

BVInit ==
    /\ bvN \in 1 .. MaxBits
    /\ bvW \in ChunkWidths
    /\ \/ bvArr = BitArray_default(bvN, bvW)
       \/ \E x0 \in ChunkVals(bvW) : bvArr = BitArray_chunk(bvN, bvW, x0)
    /\ bvPre = <<>>
    /\ bvRet = <<>>
    /\ bvOp = "init"
    /\ EqIdle /\ PLUIdle /\ MulIdle /\ ElIdle
    /\ PopIdle /\ FnIdle /\ WdIdle

\* An operation that replaces the vector by res.
BVStep(op, res) ==
    /\ bvArr' = res
    /\ bvOp' = op
    /\ bvPre' = <<>>
    /\ bvRet' = <<>>
    /\ UNCHANGED <<bvN, bvW, nonBV>>

BVSet ==
    \E pos \in Positions(bvN), value \in BOOLEAN :
        BVStep("set", set(bvN, bvW, bvArr, pos, value))

BVReset ==
    \E pos \in Positions(bvN) :
        BVStep("reset", reset(bvN, bvW, bvArr, pos))

BVSetAll == BVStep("set_all", set_all(bvN, bvW, bvArr))

BVResetAll == BVStep("reset_all", reset_all(bvN, bvW, bvArr))

BVFlipAll == BVStep("flip_all", flip_all(bvN, bvW, bvArr))

BVAnd ==
    \E other \in Operands(bvN, bvW) :
        BVStep("and", and_assign(bvN, bvW, bvArr, other))

BVOr ==
    \E other \in Operands(bvN, bvW) :
        BVStep("or", or_assign(bvN, bvW, bvArr, other))

BVXor ==
    \E other \in Operands(bvN, bvW) :
        BVStep("xor", xor_assign(bvN, bvW, bvArr, other))

\* x = ~x
BVNot == BVStep("not", not_impl(bvN, bvW, bvArr))

\* x = x << n
BVLShift ==
    \E n \in ShiftAmounts(bvN, bvW), ub \in UBOutcomes :
        BVStep("lshift", lshift_impl(bvN, bvW, bvArr, n, ub))

\* x = x >> n
BVRShift ==
    \E n \in ShiftAmounts(bvN, bvW), ub \in UBOutcomes :
        BVStep("rshift", rshift_impl(bvN, bvW, bvArr, n, ub))

\* ++x
BVPreInc ==
    /\ bvArr' = increment(bvN, bvW, bvArr)
    /\ bvOp' = "preinc"
    /\ bvPre' = bvArr
    /\ bvRet' = <<>>
    /\ UNCHANGED <<bvN, bvW, nonBV>>

\* x++: auto aux = *this; ++(*this); return aux;
BVPostInc ==
    /\ bvArr' = increment(bvN, bvW, bvArr)
    /\ bvOp' = "postinc"
    /\ bvPre' = bvArr
    /\ bvRet' = bvArr
    /\ UNCHANGED <<bvN, bvW, nonBV>>

\* x = x.lowcut(n)
BVLowCut ==
    \E n \in Positions(bvN) :
        BVStep("lowcut", lowcut(bvN, bvW, bvArr, n))

\* x = x.lowpass(n)
BVLowPass ==
    \E n \in Positions(bvN) :
        BVStep("lowpass", lowpass(bvN, bvW, bvArr, n))

BVNext ==
    \/ BVSet \/ BVReset \/ BVSetAll \/ BVResetAll \/ BVFlipAll
    \/ BVAnd \/ BVOr \/ BVXor \/ BVNot
    \/ BVLShift \/ BVRShift
    \/ BVPreInc \/ BVPostInc
    \/ BVLowCut \/ BVLowPass

SpecBV == BVInit /\ [][BVNext]_vars

---------------------------------------------------------------------------
(* What a vector encodes. *)

\* Bit p of the storage, p counted through the chunks, padding included.
StorageBit(W, arr, p) == Bit(arr[p \div W], p % W)

\* The storage positions at logical index >= N.
PaddingPos(N, W) == N .. (nchunks(N, W) * W - 1)

\* The number the N valid bits encode.
RECURSIVE ValueFrom(_, _, _, _)
ValueFrom(N, W, arr, p) ==
    IF p >= N THEN 0
    ELSE StorageBit(W, arr, p) + 2 * ValueFrom(N, W, arr, p + 1)

Value(N, W, arr) == ValueFrom(N, W, arr, 0)

\* The chunk array that encodes x < 2^N with zero padding.
Encode(N, W, x) ==
    [i \in ChunkIdx(N, W) |-> (x \div Pow2(W * i)) % Pow2(W)]

PaddingClear(N, W, arr) ==
    \A p \in PaddingPos(N, W) : StorageBit(W, arr, p) = 0


---------------------------------------------------------------------------
(* Claims on the single vector (SpecBV). *)

\* C1: in every state reachable from a default-constructed or
\* chunk-value-constructed vector through set, reset, flip, &=, |=, ^=, ~,
\* <<, >>, ++, lowcut and lowpass, every storage bit of the last chunk at
\* logical index >= N is 0.
C1_PaddingInvariant == PaddingClear(bvN, bvW, bvArr)

\* C1 witness: N is not a multiple of the chunk width, the vector was just
\* complemented and every valid bit of its last chunk is set.
C1_Witness ==
    /\ endbits(bvN, bvW) > 0
    /\ bvOp = "not"
    /\ \A p \in 0 .. (bvN - 1) : StorageBit(bvW, bvArr, p) = 1

\* C2: prefix and postfix ++ change v into the vector that encodes
\* (value(v) + 1) mod 2^N, and postfix ++ returns the value before.
C2_IncrementIsSuccessor ==
    bvOp \in {"preinc", "postinc"} =>
        /\ bvArr = Encode(bvN, bvW, (Value(bvN, bvW, bvPre) + 1) % Pow2(bvN))
        /\ bvOp = "postinc" => bvRet = bvPre

\* C3: incrementing the vector with all N valid bits set yields the all-zero
\* vector.
C3_OverflowWraps ==
    (/\ bvOp \in {"preinc", "postinc"}
     /\ PaddingClear(bvN, bvW, bvPre)
     /\ Value(bvN, bvW, bvPre) = Pow2(bvN) - 1)
    => \A i \in ChunkIdx(bvN, bvW) : bvArr[i] = 0

\* C3 witness: the maximal value of a vector of several chunks with a
\* truncated top chunk has just been incremented.
C3_Witness ==
    /\ bvOp = "preinc"
    /\ nchunks(bvN, bvW) > 1
    /\ endbits(bvN, bvW) > 0
    /\ Value(bvN, bvW, bvPre) = Pow2(bvN) - 1


---------------------------------------------------------------------------
(* SpecEq: a BitArray<N,w1>, a BitArray<N,w2> and a reference bit set of    *)
(* width N, constructed from the same integer and driven through the same   *)
(* operations, as test_qxorshift, test_or, test_and, test_not and           *)
(* test_increment drive a BitArray beside a std::bitset.                    *)

\* BitArray(larger_t x0) for an unsigned type of D > chunkbits digits:
\* m_arr{static_cast<chunk_type>(x0 >> (chunkbits*is))...} over
\* index_sequence<1+(D-1)/chunkbits>, the remaining chunks zero-initialised.
BitArray_larger(N, W, D, x0) ==
    [i \in ChunkIdx(N, W) |->
        IF i < 1 + ((D - 1) \div W) THEN (x0 \div Pow2(W * i)) % Pow2(W) ELSE 0]

\* Whether BitArray<N,T>{x0} compiles for an unsigned x0 of D digits: the
\* delegating constructor lists 1+(D-1)/chunkbits initialisers for m_arr.
Constructible(N, W, D) ==
    D > W => 1 + ((D - 1) \div W) <= nchunks(N, W)

\* BitArray<N,T>{x0} for an unsigned x0 of D digits: the chunk_type
\* constructor, or the larger_t one when D > chunkbits.
BitArray_from(N, W, D, x0) ==
    IF D > W THEN BitArray_larger(N, W, D, x0) ELSE BitArray_chunk(N, W, x0)

\* set_vs_arr: the vector and the reference agree on test(i) for all i < N.
set_vs_arr(N, W, bset, barr) ==
    \A i \in 0 .. (N - 1) : test(N, W, barr, i) = (i \in bset)

\* The reference bit set of width N (std::bitset<N>) and its operations.
RefFrom(N, x) == {i \in 0 .. (N - 1) : Bit(x, i) = 1}
RefAnd(S, T) == S \cap T
RefOr(S, T) == S \cup T
RefXor(S, T) == (S \ T) \cup (T \ S)
RefNot(N, S) == (0 .. (N - 1)) \ S
RefShl(N, S, n) == {i \in 0 .. (N - 1) : i - n \in S}
RefShr(N, S, n) == {i \in 0 .. (N - 1) : i + n \in S}

RECURSIVE RefNumber(_, _, _)
RefNumber(N, S, i) ==
    IF i >= N THEN 0 ELSE (IF i \in S THEN 1 ELSE 0) + 2 * RefNumber(N, S, i + 1)

RefInc(N, S) == RefFrom(N, (RefNumber(N, S, 0) + 1) % Pow2(N))

\* Every comparison of the harness has passed so far.
EqAgree ==
    /\ set_vs_arr(eqN, eqWa, eqRef, eqA)
    /\ set_vs_arr(eqN, eqWb, eqRef, eqB)

EqInit ==
    /\ eqN \in 1 .. MaxBits
    /\ eqWa \in ChunkWidths
    /\ eqWb \in ChunkWidths
    /\ \E D \in ChunkWidths :
        /\ Constructible(eqN, eqWa, D)
        /\ Constructible(eqN, eqWb, D)
        /\ \E x \in 0 .. (Pow2(D) - 1) :
            /\ eqA = BitArray_from(eqN, eqWa, D, x)
            /\ eqB = BitArray_from(eqN, eqWb, D, x)
            /\ eqRef = RefFrom(eqN, x)
    /\ eqOp = "init"
    /\ BVIdle /\ PLUIdle /\ MulIdle /\ ElIdle
    /\ PopIdle /\ FnIdle /\ WdIdle

\* One round of the harness: the comparison passed, then the same operation
\* is applied to the three.
EqStep(op, a, b, r) ==
    /\ EqAgree
    /\ eqA' = a
    /\ eqB' = b
    /\ eqRef' = r
    /\ eqOp' = op
    /\ UNCHANGED <<eqN, eqWa, eqWb, nonEq>>

EqAnd ==
    \E S \in SUBSET (0 .. (eqN - 1)) :
        EqStep("and",
               and_assign(eqN, eqWa, eqA, FromBits(eqN, eqWa, S, 0)),
               and_assign(eqN, eqWb, eqB, FromBits(eqN, eqWb, S, 0)),
               RefAnd(eqRef, S))

EqOr ==
    \E S \in SUBSET (0 .. (eqN - 1)) :
        EqStep("or",
               or_assign(eqN, eqWa, eqA, FromBits(eqN, eqWa, S, 0)),
               or_assign(eqN, eqWb, eqB, FromBits(eqN, eqWb, S, 0)),
               RefOr(eqRef, S))

EqXor ==
    \E S \in SUBSET (0 .. (eqN - 1)) :
        EqStep("xor",
               xor_assign(eqN, eqWa, eqA, FromBits(eqN, eqWa, S, 0)),
               xor_assign(eqN, eqWb, eqB, FromBits(eqN, eqWb, S, 0)),
               RefXor(eqRef, S))

EqNot ==
    EqStep("not", not_impl(eqN, eqWa, eqA), not_impl(eqN, eqWb, eqB),
           RefNot(eqN, eqRef))

EqLShift ==
    \E n \in ShiftAmounts(eqN, eqWa) \cup ShiftAmounts(eqN, eqWb),
       ub \in UBOutcomes :
        EqStep("lshift",
               lshift_impl(eqN, eqWa, eqA, n, ub),
               lshift_impl(eqN, eqWb, eqB, n, ub),
               RefShl(eqN, eqRef, n))

EqRShift ==
    \E n \in ShiftAmounts(eqN, eqWa) \cup ShiftAmounts(eqN, eqWb),
       ub \in UBOutcomes :
        EqStep("rshift",
               rshift_impl(eqN, eqWa, eqA, n, ub),
               rshift_impl(eqN, eqWb, eqB, n, ub),
               RefShr(eqN, eqRef, n))

EqInc ==
    EqStep("inc", increment(eqN, eqWa, eqA), increment(eqN, eqWb, eqB),
           RefInc(eqN, eqRef))

EqNext ==
    \/ EqAnd \/ EqOr \/ EqXor \/ EqNot \/ EqLShift \/ EqRShift \/ EqInc

SpecEq == EqInit /\ [][EqNext]_vars

\* C4: a BitArray<N,w1> and a BitArray<N,w2> constructed from the same
\* integer and driven through the same sequence of AND, OR, XOR, NOT, shifts
\* and increments agree with each other and with the N-bit reference on
\* test(i) for every i < N after every step.
C4_ChunkWidthIndependence ==
    \A i \in 0 .. (eqN - 1) :
        /\ test(eqN, eqWa, eqA, i) = test(eqN, eqWb, eqB, i)
        /\ test(eqN, eqWa, eqA, i) = (i \in eqRef)


---------------------------------------------------------------------------
(* BitWord primitives (detail/utils.hpp). *)

\* bitwave<T>(width): blocks of width ones alternating with blocks of zeros.
RECURSIVE bitwave_loop(_, _, _)
bitwave_loop(result, width, W) ==
    IF width < W
    THEN bitwave_loop(OR(result, SHL(result, width, W), W), 2 * width, W)
    ELSE result

bitwave(width, W) ==
    IF width = 0 THEN 0
    ELSE bitwave_loop(SHR(nzero(W), W - width), 2 * width, W)

\* popcount_impl<T,i>: the SWAR rounds i, 2i, 4i, ... below the width.
RECURSIVE popcount_impl(_, _, _)
popcount_impl(x, i, W) ==
    IF i >= W THEN x
    ELSE LET wave == bitwave(i, W)
         IN  popcount_impl(
                 (AND(x, wave, W) + AND(SHR(x, i), wave, W)) % Pow2(W),
                 2 * i, W)

\* Variant of popcount: the round i = 1 that adds neighbouring bits is skipped.
popcount_from_pairs(x, W) == popcount_impl(x, 2, W)

popcount(x, W) == popcount_impl(x, 1, W)

\* Variant of counttrail0: x-1 is counted without being masked by ~x.
counttrail0_unmasked(x, W) == popcount((x + Pow2(W) - 1) % Pow2(W), W)

\* counttrail0(x) = popcount(~x & (x-1)), the subtraction modulo 2^W.
counttrail0(x, W) ==
    popcount(AND(NOT(x, W), (x + Pow2(W) - 1) % Pow2(W), W), W)

\* counttrail1(x) = popcount((~x & (x+1)) - 1)
counttrail1(x, W) ==
    popcount((AND(NOT(x, W), (x + 1) % Pow2(W), W) + Pow2(W) - 1) % Pow2(W), W)

\* msb_impl(x, integral_constant<I>): one index bit per bitwave round.
RECURSIVE msb_impl(_, _, _)
msb_impl(x, I, W) ==
    LET hit == IF AND(bitwave(I, W), x, W) < AND(NOT(bitwave(I, W), W), x, W)
               THEN I ELSE 0
    IN  IF I >= W THEN hit
        ELSE OR(hit, msb_impl(x, 2 * I, W), W)

\* Variant of msb: the round I = 1 that decides the lowest index bit is
\* skipped.
msb_from_pairs(x, W) == IF x = 0 THEN W ELSE msb_impl(x, 2, W)

\* msb(x): numeric_limits<T>::digits when x is 0.
msb(x, W) == IF x = 0 THEN W ELSE msb_impl(x, 1, W)

---------------------------------------------------------------------------
(* BitArray<N,T>: trailing counts and the highest set bit. *)

\* countTrail0(): the loop over the chunks from the least significant.
RECURSIVE countTrail0_loop(_, _, _, _, _)
countTrail0_loop(N, W, arr, i, result) ==
    IF i >= nchunks(N, W) THEN result
    ELSE LET r == IF arr[i] # 0 THEN counttrail0(arr[i], W) ELSE W
         IN  IF endbits(N, W) = 0 \/ i + 1 < nchunks(N, W)
             THEN IF r < W
                  THEN result + r
                  ELSE countTrail0_loop(N, W, arr, i + 1, result + r)
             ELSE result + Min(r, endbits(N, W))

\* Variant of countTrail0: the count of the end chunk is not capped at endbits.
RECURSIVE countTrail0_uncapped_loop(_, _, _, _, _)
countTrail0_uncapped_loop(N, W, arr, i, result) ==
    IF i >= nchunks(N, W) THEN result
    ELSE LET r == IF arr[i] # 0 THEN counttrail0(arr[i], W) ELSE W
         IN  IF r < W
             THEN result + r
             ELSE countTrail0_uncapped_loop(N, W, arr, i + 1, result + r)

countTrail0_uncapped(N, W, arr) == countTrail0_uncapped_loop(N, W, arr, 0, 0)

countTrail0(N, W, arr) == countTrail0_loop(N, W, arr, 0, 0)

\* count(): the sum of popcount over the chunks.
RECURSIVE count_loop(_, _, _, _)
count_loop(N, W, arr, i) ==
    IF i >= nchunks(N, W) THEN 0
    ELSE popcount(arr[i], W) + count_loop(N, W, arr, i + 1)

count(N, W, arr) == count_loop(N, W, arr, 0)

\* countTrail1(): the loop over the chunks from the least significant, left
\* at the first chunk that is not all ones.
RECURSIVE countTrail1_loop(_, _, _, _, _)
countTrail1_loop(N, W, arr, i, result) ==
    IF i >= nchunks(N, W) THEN result
    ELSE LET r == counttrail1(arr[i], W)
         IN  IF r < W
             THEN result + r
             ELSE countTrail1_loop(N, W, arr, i + 1, result + r)

countTrail1(N, W, arr) == countTrail1_loop(N, W, arr, 0, 0)

\* BitArray::msb(), the member plu_lnr calls: the index of the highest set
\* bit, N when no bit is set.
RECURSIVE BitArray_msb_loop(_, _, _, _)
BitArray_msb_loop(N, W, arr, i) ==
    IF i < 0 THEN N
    ELSE IF arr[i] # 0 THEN msb(arr[i], W) + i * W
    ELSE BitArray_msb_loop(N, W, arr, i - 1)

BitArray_msb(N, W, arr) == BitArray_msb_loop(N, W, arr, nchunks(N, W) - 1)

---------------------------------------------------------------------------
(* PopIterator<N,T> (BitArray/iterators.hpp): a cursor [pos, value]. *)

\* while(!m_value && m_pos+1 < nchunks) m_value = m_chunks[++m_pos];
RECURSIVE PopSkip(_, _, _, _)
PopSkip(N, W, arr, it) ==
    IF it.value = 0 /\ it.pos + 1 < nchunks(N, W)
    THEN PopSkip(N, W, arr, [pos |-> it.pos + 1, value |-> arr[it.pos + 1]])
    ELSE it

\* PopIterator(ContainerBeginTag, chunks)
PopBegin(N, W, arr) == PopSkip(N, W, arr, [pos |-> 0, value |-> arr[0]])

\* PopIterator(ContainerEndTag, chunks)
PopEnd(N, W, arr) == [pos |-> nchunks(N, W) - 1, value |-> 0]

\* The index inside the current chunk only.
PopDeref_local(W, it) == counttrail0(it.value, W)

\* operator*
PopDeref(W, it) == counttrail0(it.value, W) + it.pos * W

\* Variant of operator++: the chunk cursor is not moved past empty chunks.
PopIncr_noskip(N, W, arr, it) ==
    LET v == it.value
    IN  [pos |-> it.pos,
         value |-> AND(v, NOT(XOR(v, (v + Pow2(W) - 1) % Pow2(W), W), W), W)]

\* operator++: m_value &= ~(m_value ^ (m_value-1)), then skip empty chunks.
PopIncr(N, W, arr, it) ==
    LET v == it.value
        cleared == AND(v, NOT(XOR(v, (v + Pow2(W) - 1) % Pow2(W), W), W), W)
    IN  PopSkip(N, W, arr, [pos |-> it.pos, value |-> cleared])


---------------------------------------------------------------------------
(* Matrix<BitArray<N,T>,nvecs,mode> (LA/matrix.hpp): m_vecs is a function
   from 0..nvecs-1 to chunk arrays; veclength is N. *)

MatrixModes == {"RowMajor", "ColumnMajor"}

nvecsOf(M) == Cardinality(DOMAIN M)

\* vec_us(i): unchecked access to the i-th stored vector.
vec_us(M, i) == M[i]

\* The access without the range check.
Matrix_vec_unchecked(M, i) ==
    [error |-> "none", value |-> IF i \in DOMAIN M THEN M[i] ELSE <<>>]

\* vec(i): throws std::range_error if i >= nvecs, else yields m_vecs[i].
Matrix_vec(M, i) ==
    IF i >= nvecsOf(M)
    THEN [error |-> "range_error", value |-> <<>>]
    ELSE [error |-> "none", value |-> M[i]]

\* coeff(r,c): coeff_impl dispatches on the mode.
coeff(N, W, mode, M, r, c) ==
    IF mode = "RowMajor" THEN test(N, W, M[r], c) ELSE test(N, W, M[c], r)

\* diagonal(diag_vec): a single i-th bit in the i-th vector where set.
diagonal(N, W, nv, diag) ==
    [i \in 0..(nv - 1) |->
        IF i < N /\ test(N, W, diag, i)
        THEN set(N, W, BitArray_default(N, W), i, TRUE)
        ELSE BitArray_default(N, W)]

\* The product of a stored-vector matrix with a coordinate vector: for each
\* set index i of vec (PopTraversable range), result ^= M.vec_us(i).
RECURSIVE mul_vec_loop(_, _, _, _, _, _, _)
mul_vec_loop(NM, NV, W, M, vec, it, result) ==
    IF it = PopEnd(NV, W, vec) THEN result
    ELSE mul_vec_loop(NM, NV, W, M, vec, PopIncr(NV, W, vec, it),
                      xor_assign(NM, W, result, vec_us(M, PopDeref(W, it))))

\* The same accumulation with |= in place of ^=.
RECURSIVE mul_vec_or_loop(_, _, _, _, _, _, _)
mul_vec_or_loop(NM, NV, W, M, vec, it, result) ==
    IF it = PopEnd(NV, W, vec) THEN result
    ELSE mul_vec_or_loop(NM, NV, W, M, vec, PopIncr(NV, W, vec, it),
                         or_assign(NM, W, result, vec_us(M, PopDeref(W, it))))

mul_vec_or(NM, NV, W, M, vec) ==
    mul_vec_or_loop(NM, NV, W, M, vec, PopBegin(NV, W, vec),
                    BitArray_default(NM, W))

mul_vec(NM, NV, W, M, vec) ==
    mul_vec_loop(NM, NV, W, M, vec, PopBegin(NV, W, vec),
                 BitArray_default(NM, W))

\* matrix_mul_row: the i-th row of the product is lhs.vec(i) * rhs.
matrix_mul_row(NL, NR, W, lhs, rhs) ==
    [i \in DOMAIN lhs |-> mul_vec(NR, NL, W, rhs, lhs[i])]

\* matrix_mul_col: the j-th column of the product is lhs * rhs.vec(j).
matrix_mul_col(NL, NR, W, lhs, rhs) ==
    [j \in DOMAIN rhs |-> mul_vec(NL, NR, W, lhs, rhs[j])]

\* operator*(lhs, rhs) in either mode; NL, NR are the two veclengths.
matrix_mul(mode, NL, NR, W, lhs, rhs) ==
    IF mode = "RowMajor"
    THEN matrix_mul_row(NL, NR, W, lhs, rhs)
    ELSE matrix_mul_col(NL, NR, W, lhs, rhs)


---------------------------------------------------------------------------
(* SpecPLU: decomp::plu and decomp::plu_lnr (LA/decompose.hpp) on an m x n
   column-major matrix; one action per iteration of the outer loop. *)

\* Largest number of rows m of a decomposed matrix.
MaxPluRows == 3

\* The numbers of columns n of a decomposed matrix.
PluCols == {1, 2, 3}

PivotStrategies == {"plu", "plu_lnr"}

\* All chunk arrays of a BitArray<N,T> built from its N valid bits.
Vectors(N, W) == {FromBits(N, W, S, 0) : S \in SUBSET (0..(N - 1))}

\* All matrices with nv stored vectors of length N.
Matrices(N, W, nv) == [0..(nv - 1) -> Vectors(N, W)]

\* ident = tmat_t::diagonal(BitArray<n,T>{}.flip())
ident(n, W) == diagonal(n, W, n, flip_all(n, W, BitArray_default(n, W)))

\* Variant of the pivot functor: a vector without a set bit yields row 0
\* where the functor yields m.
pivot_of_zero_is_row0(f, m, W, v) ==
    IF v = BitArray_default(m, W) THEN 0
    ELSE IF f = "plu" THEN countTrail0(m, W, v) ELSE BitArray_msb(m, W, v)

\* The pivot functor f: countTrail0 for plu, msb for plu_lnr.
pivot(f, m, W, v) ==
    IF f = "plu" THEN countTrail0(m, W, v) ELSE BitArray_msb(m, W, v)

\* Variants of the inner loop: "unrecorded" leaves tmat alone, "row" tests
\* row i in place of the pivot row, "transposed" sets tmat.vec(i) bit j.
RECURSIVE plu_eliminate_variant(_, _, _, _, _, _, _, _)
plu_eliminate_variant(kind, m, n, W, st, i, piv, j) ==
    IF j >= n THEN st
    ELSE IF test(m, W, st.mat[j], IF kind = "row" THEN i ELSE piv)
    THEN plu_eliminate_variant(kind, m, n, W,
             [mat  |-> [st.mat EXCEPT
                           ![j] = xor_assign(m, W, st.mat[j], st.mat[i])],
              tmat |-> IF kind = "unrecorded" THEN st.tmat
                       ELSE IF kind = "transposed"
                       THEN [st.tmat EXCEPT
                                ![i] = set(n, W, st.tmat[i], j, TRUE)]
                       ELSE [st.tmat EXCEPT
                                ![j] = set(n, W, st.tmat[j], i, TRUE)]],
             i, piv, j + 1)
    ELSE plu_eliminate_variant(kind, m, n, W, st, i, piv, j + 1)

plu_eliminate_unrecorded(m, n, W, st, i, piv, j) ==
    plu_eliminate_variant("unrecorded", m, n, W, st, i, piv, j)

plu_eliminate_row(m, n, W, st, i, piv, j) ==
    plu_eliminate_variant("row", m, n, W, st, i, piv, j)

plu_eliminate_transposed(m, n, W, st, i, piv, j) ==
    plu_eliminate_variant("transposed", m, n, W, st, i, piv, j)

\* Variant of the inner loop: it starts at j = i, not at j = i+1.
plu_eliminate_inclusive(m, n, W, st, i, piv, j) ==
    plu_eliminate_variant("inclusive", m, n, W, st, i, piv, i)

\* Variant of the inner loop: tmat gets the entry (i, j) and its mirror
\* image (j, i).
RECURSIVE plu_eliminate_symmetric(_, _, _, _, _, _, _)
plu_eliminate_symmetric(m, n, W, st, i, piv, j) ==
    IF j >= n THEN st
    ELSE IF test(m, W, st.mat[j], piv)
    THEN plu_eliminate_symmetric(m, n, W,
             [mat  |-> [st.mat EXCEPT
                           ![j] = xor_assign(m, W, st.mat[j], st.mat[i])],
              tmat |-> [st.tmat EXCEPT
                           ![j] = set(n, W, st.tmat[j], i, TRUE),
                           ![i] = set(n, W, st.tmat[i], j, TRUE)]],
             i, piv, j + 1)
    ELSE plu_eliminate_symmetric(m, n, W, st, i, piv, j + 1)

\* The inner loop for(j = i+1; j < n; ++j) on the pair [mat, tmat].
RECURSIVE plu_eliminate(_, _, _, _, _, _, _)
plu_eliminate(m, n, W, st, i, piv, j) ==
    IF j >= n THEN st
    ELSE IF test(m, W, st.mat[j], piv)
    THEN plu_eliminate(m, n, W,
             [mat  |-> [st.mat EXCEPT
                           ![j] = xor_assign(m, W, st.mat[j], st.mat[i])],
              tmat |-> [st.tmat EXCEPT
                           ![j] = set(n, W, st.tmat[j], i, TRUE)]],
             i, piv, j + 1)
    ELSE plu_eliminate(m, n, W, st, i, piv, j + 1)

\* The accumulation with tmat multiplied from the left in both products.
plu_accumulate_left(n, W, result, tmat) ==
    [k \in 0..1 |-> matrix_mul("ColumnMajor", n, n, W, tmat, result[k])]

\* result[0] = tmat * result[0]; result[1] = result[1] * tmat;
plu_accumulate(n, W, result, tmat) ==
    [k \in 0..1 |->
        IF k = 0
        THEN matrix_mul("ColumnMajor", n, n, W, tmat, result[0])
        ELSE matrix_mul("ColumnMajor", n, n, W, result[1], tmat)]


PLUInit ==
    /\ pluM \in 1..MaxPluRows
    /\ pluN \in PluCols
    /\ pluW \in ChunkWidths
    /\ pluF \in PivotStrategies
    /\ pluMat0 \in Matrices(pluM, pluW, pluN)
    /\ pluMat = pluMat0
    /\ pluResult = [k \in 0..1 |-> ident(pluN, pluW)]
    /\ pluI = 0
    /\ pluPc = "loop"
    /\ pluTmat = <<>>
    /\ BVIdle /\ EqIdle /\ MulIdle /\ ElIdle
    /\ PopIdle /\ FnIdle /\ WdIdle

\* An iteration on a zero column: if (piv == m) continue;
PLUSkip ==
    /\ pluPc = "loop"
    /\ pluI + 1 < pluN
    /\ pivot(pluF, pluM, pluW, pluMat[pluI]) = pluM
    /\ pluI' = pluI + 1
    /\ pluTmat' = <<>>
    /\ UNCHANGED <<pluM, pluN, pluW, pluF, pluMat0, pluMat, pluResult, pluPc,
                   nonPLU>>

\* An iteration with a pivot: the inner loop and the two products.
PLUStep ==
    /\ pluPc = "loop"
    /\ pluI + 1 < pluN
    /\ LET piv == pivot(pluF, pluM, pluW, pluMat[pluI])
           st  == plu_eliminate(pluM, pluN, pluW,
                      [mat |-> pluMat, tmat |-> ident(pluN, pluW)],
                      pluI, piv, pluI + 1)
       IN  /\ piv # pluM
           /\ pluMat' = st.mat
           /\ pluTmat' = st.tmat
           /\ pluResult' = plu_accumulate(pluN, pluW, pluResult, st.tmat)
    /\ pluI' = pluI + 1
    /\ UNCHANGED <<pluM, pluN, pluW, pluF, pluMat0, pluPc, nonPLU>>

\* The loop condition i+1 < n fails: return result;
PLUReturn ==
    /\ pluPc = "loop"
    /\ ~(pluI + 1 < pluN)
    /\ pluPc' = "done"
    /\ pluTmat' = <<>>
    /\ UNCHANGED <<pluM, pluN, pluW, pluF, pluMat0, pluMat, pluResult, pluI,
                   nonPLU>>

PLUNext == PLUSkip \/ PLUStep \/ PLUReturn

SpecPLU == PLUInit /\ [][PLUNext]_vars

\* The same program, for the claims on its single iterations.
SpecPLUIter == PLUInit /\ [][PLUNext]_vars

\* C5: after every iteration of the outer loop of the decomposition the two
\* accumulated matrices are inverse to each other: forward * inverse and
\* inverse * forward both equal the identity.
C5_InversePair ==
    pluPc \in {"loop", "done"} =>
        LET id == ident(pluN, pluW)
        IN  /\ matrix_mul("ColumnMajor", pluN, pluN, pluW,
                          pluResult[0], pluResult[1]) = id
            /\ matrix_mul("ColumnMajor", pluN, pluN, pluW,
                          pluResult[1], pluResult[0]) = id

\* Two iterations have eliminated and the accumulated pair is not trivial.
C5_Witness ==
    /\ pluPc = "loop"
    /\ pluI = 2
    /\ pluResult[0] # ident(pluN, pluW)
    /\ pluResult[0] # pluResult[1]

\* C6: once plu has returned, the eliminated matrix times the forward
\* transformation equals the original matrix: mat * transf[0] = mat0.
C6_Reconstruction ==
    pluPc = "done" =>
        matrix_mul("ColumnMajor", pluM, pluN, pluW, pluMat, pluResult[0])
            = pluMat0

\* plu has returned after changing the matrix.
C6_Witness ==
    /\ pluPc = "done"
    /\ pluMat # pluMat0
    /\ pluN = 3

\* C7: once the decomposition has returned, for every column i before the
\* last that is not zero, all later columns are zero in the pivot row of
\* column i (lowest set bit for plu, highest set bit for plu_lnr).
C7_TriangularUpToRows ==
    pluPc = "done" =>
        \A i \in 0..(pluN - 2) :
            LET piv == pivot(pluF, pluM, pluW, pluMat[i])
            IN  piv # pluM =>
                    \A j \in (i + 1)..(pluN - 1) :
                        ~coeff(pluM, pluW, "ColumnMajor", pluMat, piv, j)

\* plu_lnr has returned and the elimination changed the matrix.
C7_Witness ==
    /\ pluPc = "done"
    /\ pluF = "plu_lnr"
    /\ pluMat # pluMat0
    /\ pluN >= 3
    /\ pluM >= 2

\* C8: the forward transformation returned by the decomposition is upper
\* triangular: coeff(r,c) = 0 whenever r > c.
C8_ForwardUpperTriangular ==
    pluPc = "done" =>
        \A r \in 0..(pluN - 1) : \A c \in 0..(pluN - 1) :
            r > c => ~coeff(pluN, pluW, "ColumnMajor", pluResult[0], r, c)

\* The returned forward transformation has an entry above the diagonal.
C8_Witness ==
    /\ pluPc = "done"
    /\ \E r \in 0..(pluN - 1) : \E c \in 0..(pluN - 1) :
           r < c /\ coeff(pluN, pluW, "ColumnMajor", pluResult[0], r, c)


---------------------------------------------------------------------------
(* SpecMul: operator* on two matrices of the same mode (LA/matrix.hpp). *)

\* Largest number of rows of the left factor.
MaxMulRows == 2

\* The inner dimensions and the numbers of columns of the right factor.
InnerDims == {1, 3}
MulCols == {1, 2}

\* veclength and nvecs of an r x c matrix stored in the given mode.
veclength(mode, r, c) == IF mode = "RowMajor" THEN c ELSE r
nvecs(mode, r, c) == IF mode = "RowMajor" THEN r ELSE c

\* All r x c matrices of the given mode.
MatricesOf(mode, W, r, c) ==
    Matrices(veclength(mode, r, c), W, nvecs(mode, r, c))

MulInit ==
    /\ mulMode \in MatrixModes
    /\ mulW \in ChunkWidths
    /\ mulR \in 1..MaxMulRows
    /\ mulK \in InnerDims
    /\ mulC \in MulCols
    /\ mulLhs \in MatricesOf(mulMode, mulW, mulR, mulK)
    /\ mulRhs \in MatricesOf(mulMode, mulW, mulK, mulC)
    /\ mulProd = <<>>
    /\ mulOp = "init"
    /\ BVIdle /\ EqIdle /\ PLUIdle /\ ElIdle
    /\ PopIdle /\ FnIdle /\ WdIdle

\* prod = lhs * rhs
MulMultiply ==
    /\ mulOp = "init"
    /\ mulProd' = matrix_mul(mulMode,
                      veclength(mulMode, mulR, mulK),
                      veclength(mulMode, mulK, mulC),
                      mulW, mulLhs, mulRhs)
    /\ mulOp' = "mul"
    /\ UNCHANGED <<mulMode, mulW, mulR, mulK, mulC, mulLhs, mulRhs, nonMul>>

MulNext == MulMultiply

SpecMul == MulInit /\ [][MulNext]_vars

\* The GF(2) dot product: the parity of the k with lhs(i,k) and rhs(k,j).
RECURSIVE DotProduct(_, _, _, _, _, _, _, _, _, _)
DotProduct(mode, W, NL, NR, lhs, rhs, i, j, q, k) ==
    IF k >= q THEN FALSE
    ELSE (coeff(NL, W, mode, lhs, i, k) /\ coeff(NR, W, mode, rhs, k, j))
             # DotProduct(mode, W, NL, NR, lhs, rhs, i, j, q, k + 1)

\* C9: in RowMajor and in ColumnMajor mode, every coefficient (i,j) of the
\* product lhs*rhs is the XOR over k of lhs.coeff(i,k) AND rhs.coeff(k,j).
C9_MatrixProduct ==
    mulOp = "mul" =>
        \A i \in 0..(mulR - 1) : \A j \in 0..(mulC - 1) :
            coeff(veclength(mulMode, mulR, mulC), mulW, mulMode, mulProd, i, j)
                = DotProduct(mulMode, mulW,
                             veclength(mulMode, mulR, mulK),
                             veclength(mulMode, mulK, mulC),
                             mulLhs, mulRhs, i, j, mulK, 0)

\* A product over a three-term inner dimension with a set coefficient that
\* is the sum of two or more non-zero terms cancelling to one.
C9_Witness ==
    /\ mulOp = "mul"
    /\ mulK = 3
    /\ \A k \in 0..2 :
           /\ coeff(veclength(mulMode, mulR, mulK), mulW, mulMode, mulLhs, 0, k)
           /\ coeff(veclength(mulMode, mulK, mulC), mulW, mulMode, mulRhs, k, 0)
    /\ coeff(veclength(mulMode, mulR, mulC), mulW, mulMode, mulProd, 0, 0)


---------------------------------------------------------------------------
(* SpecEl: the elementary row and column operations of Matrix. *)

\* Largest number of rows of the matrix.
MaxElRows == 2

\* The numbers of columns of the matrix.
ElCols == {1, 3}

\* scalar_in_vectors(c,i): if (!c) every stored vector resets its bit i.
scalar_in_vectors(N, W, M, c, i) ==
    IF ~c THEN [k \in DOMAIN M |-> reset(N, W, M[k], i)] ELSE M

\* The same with the coefficient ignored.
scalar_vectors_always(N, W, M, c, i) ==
    [M EXCEPT ![i] = reset_all(N, W, M[i])]

\* scalar_vectors(c,i): if (!c) the i-th stored vector is reset.
scalar_vectors(N, W, M, c, i) ==
    IF ~c THEN [M EXCEPT ![i] = reset_all(N, W, M[i])] ELSE M

\* scalar_row(c,itgt)
scalar_row(mode, N, W, M, c, itgt) ==
    IF mode = "RowMajor"
    THEN scalar_vectors(N, W, M, c, itgt)
    ELSE scalar_in_vectors(N, W, M, c, itgt)

\* scalar_col(c,itgt)
scalar_col(mode, N, W, M, c, itgt) ==
    IF mode = "RowMajor"
    THEN scalar_in_vectors(N, W, M, c, itgt)
    ELSE scalar_vectors(N, W, M, c, itgt)

\* swap_in_vectors(i,j): every stored vector exchanges its bits i and j.
swap_in_vectors(N, W, M, i, j) ==
    [k \in DOMAIN M |->
        LET aux == test(N, W, M[k], i)
            v1  == set(N, W, M[k], i, test(N, W, M[k], j))
        IN  set(N, W, v1, j, aux)]

\* The exchange cut short after its first assignment.
swap_vectors_first(N, W, M, i, j) ==
    IF i # j THEN [M EXCEPT ![i] = xor_assign(N, W, M[i], M[j])] ELSE M

\* swap_vectors(i,j): the three XOR assignments, skipped when i == j.
swap_vectors(N, W, M, i, j) ==
    IF i # j
    THEN LET m1 == [M EXCEPT ![i] = xor_assign(N, W, M[i], M[j])]
             m2 == [m1 EXCEPT ![j] = xor_assign(N, W, m1[j], m1[i])]
         IN  [m2 EXCEPT ![i] = xor_assign(N, W, m2[i], m2[j])]
    ELSE M

\* swap_rows(i,j)
swap_rows(mode, N, W, M, i, j) ==
    IF mode = "RowMajor"
    THEN swap_vectors(N, W, M, i, j)
    ELSE swap_in_vectors(N, W, M, i, j)

\* swap_cols(i,j)
swap_cols(mode, N, W, M, i, j) ==
    IF mode = "RowMajor"
    THEN swap_in_vectors(N, W, M, i, j)
    ELSE swap_vectors(N, W, M, i, j)

\* axpy_in_vectors(c,isrc,itgt): if (c) every stored vector with bit isrc
\* set flips its bit itgt.
axpy_in_vectors(N, W, M, c, isrc, itgt) ==
    IF c
    THEN [k \in DOMAIN M |->
             IF test(N, W, M[k], isrc) THEN flip(N, W, M[k], itgt) ELSE M[k]]
    ELSE M

\* The addition with source and target exchanged.
axpy_vectors_reversed(N, W, M, c, isrc, itgt) ==
    IF c THEN [M EXCEPT ![isrc] = xor_assign(N, W, M[isrc], M[itgt])] ELSE M

\* axpy_vectors(c,isrc,itgt): if (c) m_vecs[itgt] ^= m_vecs[isrc].
axpy_vectors(N, W, M, c, isrc, itgt) ==
    IF c THEN [M EXCEPT ![itgt] = xor_assign(N, W, M[itgt], M[isrc])] ELSE M

\* axpy_rows(c,isrc,itgt)
axpy_rows(mode, N, W, M, c, isrc, itgt) ==
    IF mode = "RowMajor"
    THEN axpy_vectors(N, W, M, c, isrc, itgt)
    ELSE axpy_in_vectors(N, W, M, c, isrc, itgt)

\* axpy_cols(c,isrc,itgt)
axpy_cols(mode, N, W, M, c, isrc, itgt) ==
    IF mode = "RowMajor"
    THEN axpy_in_vectors(N, W, M, c, isrc, itgt)
    ELSE axpy_vectors(N, W, M, c, isrc, itgt)

\* veclength of the matrix under operation.
elN == veclength(elMode, elRows, elCols)

ElInit ==
    /\ elMode \in MatrixModes
    /\ elW \in ChunkWidths
    /\ elRows \in 1..MaxElRows
    /\ elCols \in ElCols
    /\ elMat \in MatricesOf(elMode, elW, elRows, elCols)
    /\ elPre = elMat
    /\ elOp = "init"
    /\ elArgs = <<>>
    /\ elRet = <<>>
    /\ BVIdle /\ EqIdle /\ PLUIdle /\ MulIdle
    /\ PopIdle /\ FnIdle /\ WdIdle

ElStep(op, args, res) ==
    /\ elPre' = elMat
    /\ elMat' = res
    /\ elOp' = op
    /\ elArgs' = args
    /\ elRet' = <<>>
    /\ UNCHANGED <<elMode, elW, elRows, elCols, nonEl>>

ElScalarRow ==
    \E c \in BOOLEAN : \E i \in 0..(elRows - 1) :
        ElStep("scalar_row", <<c, i>>,
               scalar_row(elMode, elN, elW, elMat, c, i))

ElScalarCol ==
    \E c \in BOOLEAN : \E i \in 0..(elCols - 1) :
        ElStep("scalar_col", <<c, i>>,
               scalar_col(elMode, elN, elW, elMat, c, i))

\* swap_rows / swap_cols / axpy_rows / axpy_cols, each on a fresh copy of
\* the matrix.
ElSwapRows ==
    /\ elOp = "init"
    /\ \E i \in 0..(elRows - 1) : \E j \in 0..(elRows - 1) :
           ElStep("swap_rows", <<i, j>>,
                  swap_rows(elMode, elN, elW, elMat, i, j))

ElSwapCols ==
    /\ elOp = "init"
    /\ \E i \in 0..(elCols - 1) : \E j \in 0..(elCols - 1) :
           ElStep("swap_cols", <<i, j>>,
                  swap_cols(elMode, elN, elW, elMat, i, j))

ElAxpyRows ==
    /\ elOp = "init"
    /\ \E c \in BOOLEAN : \E i \in 0..(elRows - 1) :
       \E j \in 0..(elRows - 1) :
           ElStep("axpy_rows", <<c, i, j>>,
                  axpy_rows(elMode, elN, elW, elMat, c, i, j))

ElAxpyCols ==
    /\ elOp = "init"
    /\ \E c \in BOOLEAN : \E i \in 0..(elCols - 1) :
       \E j \in 0..(elCols - 1) :
           ElStep("axpy_cols", <<c, i, j>>,
                  axpy_cols(elMode, elN, elW, elMat, c, i, j))

\* vec(i) for an index in or past the range of the stored vectors.
ElVec ==
    /\ elOp = "init"
    /\ \E i \in 0..(nvecsOf(elMat) + 1) :
           /\ elRet' = Matrix_vec(elMat, i)
           /\ elArgs' = <<i>>
    /\ elOp' = "vec"
    /\ elPre' = elMat
    /\ UNCHANGED <<elMode, elW, elRows, elCols, elMat, nonEl>>

\* vec_us(i) for every i: m_vecs[i] with i >= nvecs is read past the array,
\* undefined behaviour resolved by the vector oob found there.
vec_us_ub(M, i, oob) == IF i \in DOMAIN M THEN vec_us(M, i) ELSE oob

\* operator*(V, Matrix RowMajor) and operator*(Matrix ColumnMajor, V) for a
\* vector of any length NV: for each set index i of vec, result ^= vec_us(i).
\* reads collects the indices passed to vec_us.
RECURSIVE mul_vec_us_loop(_, _, _, _, _, _, _, _)
mul_vec_us_loop(NM, NV, W, M, vec, it, acc, oob) ==
    IF it = PopEnd(NV, W, vec) THEN acc
    ELSE LET i == PopDeref(W, it)
         IN  mul_vec_us_loop(NM, NV, W, M, vec, PopIncr(NV, W, vec, it),
                 [result |-> xor_assign(NM, W, acc.result, vec_us_ub(M, i, oob)),
                  reads  |-> acc.reads \cup {i}],
                 oob)

mul_vec_us(NM, NV, W, M, vec, oob) ==
    mul_vec_us_loop(NM, NV, W, M, vec, PopBegin(NV, W, vec),
                    [result |-> BitArray_default(NM, W), reads |-> {}], oob)

\* v * M (RowMajor) or M * v (ColumnMajor) for a vector v as long as the
\* matrix has stored vectors, or one bit longer.
ElMulVec ==
    /\ elOp = "init"
    /\ \E NV \in {nvecsOf(elMat), nvecsOf(elMat) + 1} :
          \E v \in Vectors(NV, elW), oob \in Vectors(elN, elW) :
              /\ elRet' = mul_vec_us(elN, NV, elW, elMat, v, oob)
              /\ elArgs' = <<NV, v>>
    /\ elOp' = "mul_vec"
    /\ elPre' = elMat
    /\ UNCHANGED <<elMode, elW, elRows, elCols, elMat, nonEl>>

\* SpecVecMul: one vector-matrix product on a matrix.
VecMulNext == ElMulVec

SpecVecMul == ElInit /\ [][VecMulNext]_vars

ElNext ==
    \/ ElScalarRow \/ ElScalarCol
    \/ ElSwapRows \/ ElSwapCols
    \/ ElAxpyRows \/ ElAxpyCols
    \/ ElVec

SpecEl == ElInit /\ [][ElNext]_vars

\* C10: in both modes scalar_row(true,i) and scalar_col(true,i) leave the
\* matrix unchanged; scalar_row(false,i) makes every coefficient of row i
\* zero and keeps every coefficient of the other rows; scalar_col(false,i)
\* does the same for column i.
C10_Scaling ==
    elOp \in {"scalar_row", "scalar_col"} =>
        LET c == elArgs[1]
            i == elArgs[2]
        IN  /\ c => elMat = elPre
            /\ ~c =>
                  \A r \in 0..(elRows - 1) : \A k \in 0..(elCols - 1) :
                      coeff(elN, elW, elMode, elMat, r, k)
                          = IF (IF elOp = "scalar_row" THEN r ELSE k) = i
                            THEN FALSE
                            ELSE coeff(elN, elW, elMode, elPre, r, k)

\* scalar_col(false,i) has cleared a bit stored in the top chunk of a
\* two-chunk vector and another row or column still holds a set bit.
C10_Witness ==
    /\ elOp = "scalar_col"
    /\ elMode = "RowMajor"
    /\ elW = 2
    /\ elArgs = <<FALSE, 2>>
    /\ elMat # elPre
    /\ elCols = 3
    /\ \E r \in 0..(elRows - 1) : coeff(elN, elW, elMode, elMat, r, 0)


\* Row r (byRow) or column r of M as the set of its set positions.
ElLine(M, byRow, r) ==
    IF byRow
    THEN {k \in 0..(elCols - 1) : coeff(elN, elW, elMode, M, r, k)}
    ELSE {k \in 0..(elRows - 1) : coeff(elN, elW, elMode, M, k, r)}

\* The number of rows (byRow) or of columns.
ElLines(byRow) == IF byRow THEN elRows ELSE elCols

\* C11: in both modes, after swap_rows(i,j) row i holds the previous row j,
\* row j the previous row i and every other row is unchanged, likewise
\* swap_cols for columns; with i = j the matrix is unchanged.
C11_Swap ==
    elOp \in {"swap_rows", "swap_cols"} =>
        LET byRow == elOp = "swap_rows"
            i == elArgs[1]
            j == elArgs[2]
        IN  /\ ElLine(elMat, byRow, i) = ElLine(elPre, byRow, j)
            /\ ElLine(elMat, byRow, j) = ElLine(elPre, byRow, i)
            /\ \A r \in 0..(ElLines(byRow) - 1) :
                   r \notin {i, j} =>
                       ElLine(elMat, byRow, r) = ElLine(elPre, byRow, r)
            /\ i = j => elMat = elPre

\* Two different rows stored as vectors were exchanged.
C11_Witness ==
    /\ elOp = "swap_rows"
    /\ elMode = "RowMajor"
    /\ elArgs[1] # elArgs[2]
    /\ elCols = 3
    /\ elMat # elPre

\* C12: in both modes axpy_rows(false,src,tgt) leaves the matrix unchanged;
\* axpy_rows(true,src,tgt) replaces row tgt by old row src XOR old row tgt
\* and keeps every other row; with src = tgt row tgt becomes zero.  The same
\* holds for axpy_cols on columns.
C12_Axpy ==
    elOp \in {"axpy_rows", "axpy_cols"} =>
        LET byRow == elOp = "axpy_rows"
            c == elArgs[1]
            src == elArgs[2]
            tgt == elArgs[3]
            old(r) == ElLine(elPre, byRow, r)
        IN  /\ ~c => elMat = elPre
            /\ c =>
                /\ ElLine(elMat, byRow, tgt)
                       = (old(src) \ old(tgt)) \cup (old(tgt) \ old(src))
                /\ \A r \in 0..(ElLines(byRow) - 1) :
                       r # tgt => ElLine(elMat, byRow, r) = old(r)
                /\ src = tgt => ElLine(elMat, byRow, tgt) = {}

\* A row stored as a vector was added to a different non-zero row.
C12_Witness ==
    /\ elOp = "axpy_rows"
    /\ elMode = "RowMajor"
    /\ elArgs[1]
    /\ elArgs[2] # elArgs[3]
    /\ elMat # elPre
    /\ ElLine(elPre, TRUE, elArgs[3]) # {}


---------------------------------------------------------------------------
(* SpecPop: a traversal for(itr = begin(); itr != end(); ++itr) of a vector
   by PopIterator, one action per round of the loop. *)

PopInit ==
    /\ popN \in 1..MaxBits
    /\ popW \in ChunkWidths
    /\ popV \in Vectors(popN, popW)
    /\ popIt = PopBegin(popN, popW, popV)
    /\ popSeen = <<>>
    /\ popTester = popV
    /\ popAux = BitArray_default(popN, popW)
    /\ popPc = "loop"
    /\ popPass = 1
    /\ popFirst = <<>>
    /\ BVIdle /\ EqIdle /\ PLUIdle /\ MulIdle /\ ElIdle /\ FnIdle /\ WdIdle

\* A round of the loop: tester.reset(*itr); aux.set(*itr); ++itr.
PopVisit ==
    /\ popPc = "loop"
    /\ popIt # PopEnd(popN, popW, popV)
    /\ LET i == PopDeref(popW, popIt)
       IN  /\ popSeen' = Append(popSeen, i)
           /\ popTester' = reset(popN, popW, popTester, i)
           /\ popAux' = set(popN, popW, popAux, i, TRUE)
    /\ popIt' = PopIncr(popN, popW, popV, popIt)
    /\ UNCHANGED <<popN, popW, popV, popPc, popPass, popFirst, nonPop>>

\* itr == end(): the loop is left.
PopExit ==
    /\ popPc = "loop"
    /\ popIt = PopEnd(popN, popW, popV)
    /\ popPc' = "done"
    /\ UNCHANGED <<popN, popW, popV, popIt, popSeen, popTester, popAux,
                   popPass, popFirst, nonPop>>

\* A second range<PopIterator> over the same, unmodified vector, with a
\* fresh tester and aux.
PopRestart ==
    /\ popPc = "done"
    /\ popPass = 1
    /\ popPass' = 2
    /\ popFirst' = popSeen
    /\ popSeen' = <<>>
    /\ popIt' = PopBegin(popN, popW, popV)
    /\ popTester' = popV
    /\ popAux' = BitArray_default(popN, popW)
    /\ popPc' = "loop"
    /\ UNCHANGED <<popN, popW, popV, nonPop>>

PopNext == PopVisit \/ PopExit \/ PopRestart

SpecPop == PopInit /\ [][PopNext]_vars

\* The indices below N at which the vector tests true.
SetBits(N, W, arr) == {i \in 0..(N - 1) : test(N, W, arr, i)}

\* C13: a PopIterator stepped from begin() to end() dereferences to exactly
\* the indices i < N with test(i) true, each once and in strictly increasing
\* order; resetting the visited indices in a copy leaves the zero vector and
\* setting them in a zero vector reproduces the vector.
C13_PopTraversal ==
    /\ \A k \in 1..Len(popSeen) :
           /\ popSeen[k] \in SetBits(popN, popW, popV)
           /\ k > 1 => popSeen[k - 1] < popSeen[k]
    /\ popPc = "done" =>
           /\ {popSeen[k] : k \in 1..Len(popSeen)} = SetBits(popN, popW, popV)
           /\ popTester = BitArray_default(popN, popW)
           /\ popAux = popV

\* A finished traversal of three chunks that skipped the empty middle one.
C13_Witness ==
    /\ popPc = "done"
    /\ popW = 2
    /\ popSeen = <<0, 4>>


\* C14: Matrix::vec(i) with i >= nvecs signals a range error and leaves the
\* matrix unchanged; with i < nvecs it signals no error and yields the i-th
\* stored vector.
C14_CheckedVec ==
    elOp = "vec" =>
        LET i == elArgs[1]
        IN  /\ elMat = elPre
            /\ i >= nvecs(elMode, elRows, elCols) =>
                   elRet.error = "range_error"
            /\ i < nvecs(elMode, elRows, elCols) =>
                   elRet.error = "none" /\ elRet.value = elPre[i]

\* vec(nvecs) threw on a matrix with three stored vectors.
C14_Witness ==
    /\ elOp = "vec"
    /\ elArgs = <<3>>
    /\ nvecs(elMode, elRows, elCols) = 3
    /\ elRet.error = "range_error"


---------------------------------------------------------------------------
(* SpecFn: one call of a member function on a vector BitArray<N,T>. *)

\* bindigits(x, c0, c1) with IsRev = false: every char starts as c0 and the
\* char at digits - counttrail0(x) - 1 becomes c1 for each set bit of x, the
\* lowest set bit being cleared by x &= (x-1).  Index k of the C array is
\* index k+1 of the sequence.
RECURSIVE bindigits_loop(_, _, _, _)
bindigits_loop(x, c1, W, str) ==
    IF x = 0 THEN str
    ELSE bindigits_loop(AND(x, x - 1, W), c1, W,
                        [str EXCEPT ![(W - counttrail0(x, W) - 1) + 1] = c1])

bindigits(x, c0, c1, W) == bindigits_loop(x, c1, W, [k \in 1 .. W |-> c0])

\* The value of a char of `char str[numbits]{}` that is never assigned.
NUL == "NUL"

\* digits(c0, c1) through digits_impl: the endbits low chars of the last
\* chunk's digits, then the digits of the chunks nchunks-2 down to 0.
digits_impl(N, W, arr, c0, c1) ==
    LET last_digits == bindigits(arr[nchunks(N, W) - 1], c0, c1, W)
        str0 == [k \in 1 .. N |-> NUL]
        str1 == [k \in 1 .. N |->
                    IF k - 1 < endbits(N, W)
                    THEN last_digits[((W - endbits(N, W)) + (k - 1)) + 1]
                    ELSE str0[k]]
    IN  [k \in 1 .. N |->
            LET p == (k - 1) - endbits(N, W)
                i == p \div W
                j == p % W
            IN  IF p >= 0 /\ i + 1 < nchunks(N, W)
                THEN bindigits(arr[nchunks(N, W) - i - 2], c0, c1, W)[j + 1]
                ELSE str1[k]]

digits(N, W, arr, c0, c1) == digits_impl(N, W, arr, c0, c1)

\* The character pairs passed to digits: the defaults and another pair.
CharPairs == {<<"0", "1">>, <<".", "#">>}

\* Positions passed to set, reset and test: in range, numbits itself, the
\* padding of the last chunk and beyond the storage.
FnPositions(N, W) == 0 .. (N + W)

FnInit ==
    /\ fnN \in 1 .. MaxBits
    /\ fnW \in ChunkWidths
    /\ fnArr \in Vectors(fnN, fnW)
    /\ fnOp = "init"
    /\ fnArgs = <<>>
    /\ fnOut = <<>>
    /\ BVIdle /\ EqIdle /\ PLUIdle /\ MulIdle /\ ElIdle /\ PopIdle /\ WdIdle

\* One call on the vector as constructed; out is the vector after a mutating
\* call and the returned value otherwise.
FnStep(op, args, out) ==
    /\ fnOp = "init"
    /\ fnOp' = op
    /\ fnArgs' = args
    /\ fnOut' = out
    /\ UNCHANGED <<fnN, fnW, fnArr, nonFn>>

FnSet ==
    \E pos \in FnPositions(fnN, fnW), value \in BOOLEAN :
        FnStep("set", <<pos, value>>, set(fnN, fnW, fnArr, pos, value))

FnReset ==
    \E pos \in FnPositions(fnN, fnW) :
        FnStep("reset", <<pos>>, reset(fnN, fnW, fnArr, pos))

FnTest ==
    \E pos \in FnPositions(fnN, fnW), oob \in ChunkVals(fnW) :
        FnStep("test", <<pos>>, test_ub(fnN, fnW, fnArr, pos, oob))

FnShl ==
    \E n \in ShiftAmounts(fnN, fnW), ub \in UBOutcomes :
        FnStep("shl", <<n>>, lshift_impl(fnN, fnW, fnArr, n, ub))

FnShr ==
    \E n \in ShiftAmounts(fnN, fnW), ub \in UBOutcomes :
        FnStep("shr", <<n>>, rshift_impl(fnN, fnW, fnArr, n, ub))

FnDigits ==
    \E cc \in CharPairs :
        FnStep("digits", cc, digits(fnN, fnW, fnArr, cc[1], cc[2]))

FnCountTrail0 ==
    FnStep("countTrail0", <<>>, countTrail0(fnN, fnW, fnArr))

FnCountTrail1 ==
    FnStep("countTrail1", <<>>, countTrail1(fnN, fnW, fnArr))

\* The lengths M of the source vectors passed to replace.
SourceLens == {1, 2, 3}

FnReplace ==
    \E M \in SourceLens \cap (1 .. fnN), ub \in UBOutcomes :
        \E src \in Vectors(M, fnW), i \in Positions(fnN), wid \in 0 .. M :
            FnStep("replace", <<i, M, src, wid>>,
                   replace(fnN, fnW, fnArr, M, i, src, wid, ub))

\* The lengths n of the vectors returned by slice.
SliceLens == {1, 3, 6}

FnSlice ==
    \E n \in SliceLens, i \in ShiftAmounts(fnN, fnW), ub \in UBOutcomes :
        /\ Sliceable(fnN, fnW, n)
        /\ FnStep("slice", <<n, i>>, slice(fnN, fnW, fnArr, n, i, ub))

\* operator=(U x) for U = chunk_type: m_arr[0] = x, the other chunks zero.
assign_chunk(N, W, arr, x) == [i \in ChunkIdx(N, W) |-> IF i = 0 THEN x ELSE 0]

\* The numbers of digits of the unsigned types passed to the larger_t
\* constructor.
LargerDigits == {4, 8}

\* BitArray<N,T>{x0} for an unsigned x0 of more digits than chunk_type.
FnConstruct ==
    \E D \in LargerDigits :
        /\ D > fnW
        /\ Constructible(fnN, fnW, D)
        /\ \E x0 \in 0 .. (Pow2(D) - 1) :
               FnStep("construct", <<D, x0>>, BitArray_larger(fnN, fnW, D, x0))

\* v = x for a chunk value x.
FnAssign ==
    \E x \in ChunkVals(fnW) :
        FnStep("assign", <<fnW, x>>, assign_chunk(fnN, fnW, fnArr, x))

FnNext ==
    \/ FnConstruct
    \/ FnAssign
    \/ FnCountTrail0
    \/ FnCountTrail1
    \/ FnSet
    \/ FnReset
    \/ FnTest
    \/ FnShl
    \/ FnShr
    \/ FnDigits

SpecFn == FnInit /\ [][FnNext]_vars

\* SpecSub: one call of an operation on sub-arrays on a vector BitArray<N,T>.
SubNext ==
    \/ FnReplace
    \/ FnSlice

SpecSub == FnInit /\ [][SubNext]_vars

\* Bit p (0 <= p < N) of the vector stored in arr.
FnBit(W, arr, p) == StorageBit(W, arr, p) = 1

\* C15: set(pos, true), set(pos, false) and reset(pos) with pos >= N return
\* without an error and leave every bit of the vector (storage included)
\* unchanged; with pos < N they give bit pos the requested value and leave
\* every other bit unchanged.
C15_SilentClamp ==
    fnOp \in {"set", "reset"} =>
        LET pos == fnArgs[1]
            value == IF fnOp = "set" THEN fnArgs[2] ELSE FALSE
        IN  /\ pos >= fnN => fnOut = fnArr
            /\ pos < fnN =>
                  /\ DOMAIN fnOut = DOMAIN fnArr
                  /\ \A p \in 0 .. (nchunks(fnN, fnW) * fnW - 1) :
                        StorageBit(fnW, fnOut, p) =
                            IF p = pos THEN (IF value THEN 1 ELSE 0)
                            ELSE StorageBit(fnW, fnArr, p)

\* set(pos, true) with pos inside the padding of the last chunk, on a vector
\* with all bits set.
C15_Witness ==
    /\ fnOp = "set"
    /\ fnN = 3
    /\ fnW = 2
    /\ fnArgs = <<3, TRUE>>
    /\ fnArr = (0 :> 3 @@ 1 :> 1)
    /\ fnOut = fnArr

\* C16: test(pos) returns false for every pos >= N, pos = N included, and the
\* value of bit pos for pos < N.
C16_TestBeyondEnd ==
    fnOp = "test" =>
        LET pos == fnArgs[1]
        IN  /\ pos >= fnN => fnOut = FALSE
            /\ pos < fnN => fnOut = FnBit(fnW, fnArr, pos)

\* C17: for every n >= 0, bit i of v << n is bit i-n of v when n <= i < N and
\* 0 otherwise; bit i of v >> n is bit i+n of v when i+n < N and 0 otherwise.
C17_LogicalShift ==
    /\ fnOp = "shl" =>
          \A i \in 0 .. (fnN - 1) :
              FnBit(fnW, fnOut, i) =
                  (fnArgs[1] <= i /\ FnBit(fnW, fnArr, i - fnArgs[1]))
    /\ fnOp = "shr" =>
          \A i \in 0 .. (fnN - 1) :
              FnBit(fnW, fnOut, i) =
                  (i + fnArgs[1] < fnN /\ FnBit(fnW, fnArr, i + fnArgs[1]))

\* C18: digits(c0, c1) has exactly N characters, most significant bit first:
\* character k is c1 when bit N-1-k is set and c0 otherwise.
C18_Digits ==
    fnOp = "digits" =>
        /\ Len(fnOut) = fnN
        /\ \A k \in 0 .. (fnN - 1) :
              fnOut[k + 1] = IF FnBit(fnW, fnArr, fnN - 1 - k)
                             THEN fnArgs[2] ELSE fnArgs[1]

---------------------------------------------------------------------------
(* SpecWord: the word-level primitives applied to one unsigned value. *)

\* The widths of the unsigned type T: uint8_t and two narrower words.
WordWidths == {2, 4, 8}

WdInit ==
    /\ wdW \in WordWidths
    /\ wdX \in 0 .. (Pow2(wdW) - 1)
    /\ wdOp = "init"
    /\ wdOut = 0
    /\ BVIdle /\ EqIdle /\ PLUIdle /\ MulIdle /\ ElIdle /\ PopIdle /\ FnIdle

\* One call on the value x; out is the returned count.
WdStep(op, out) ==
    /\ wdOp = "init"
    /\ wdOp' = op
    /\ wdOut' = out
    /\ UNCHANGED <<wdW, wdX, nonWd>>

WdPopcount == WdStep("popcount", popcount(wdX, wdW))

WdCounttrail0 == WdStep("counttrail0", counttrail0(wdX, wdW))

WdCounttrail1 == WdStep("counttrail1", counttrail1(wdX, wdW))

WdMsb == WdStep("msb", msb(wdX, wdW))

WdNext ==
    \/ WdPopcount
    \/ WdCounttrail0
    \/ WdCounttrail1
    \/ WdMsb

SpecWord == WdInit /\ [][WdNext]_vars

\* The number of low-order bits of x equal to b before the first bit that
\* differs, W when every bit equals b.
TrailLen(x, W, b) ==
    CHOOSE k \in 0 .. W :
        /\ \A p \in 0 .. (k - 1) : Bit(x, p) = b
        /\ k = W \/ Bit(x, k) # b

\* C19: popcount(x) is the number of set bits of x, for every width and every
\* value of that width.
C19_Popcount ==
    wdOp = "popcount" =>
        wdOut = Cardinality({p \in 0 .. (wdW - 1) : Bit(wdX, p) = 1})

\* popcount of a value whose neighbouring bits are both set.
C19_Witness ==
    /\ wdOp = "popcount"
    /\ wdW = 8
    /\ wdX = 183
    /\ wdOut = 6

\* C20: counttrail0(x) is the number of trailing zero bits of x (the width
\* when x is 0) and counttrail1(x) the number of trailing one bits (0 when
\* bit 0 is clear, the width when every bit is set).
C20_CountTrail ==
    /\ wdOp = "counttrail0" => wdOut = TrailLen(wdX, wdW, 0)
    /\ wdOp = "counttrail0" /\ wdX = 0 => wdOut = wdW
    /\ wdOp = "counttrail1" => wdOut = TrailLen(wdX, wdW, 1)
    /\ wdOp = "counttrail1" /\ Bit(wdX, 0) = 0 => wdOut = 0
    /\ wdOp = "counttrail1" /\ wdX = Pow2(wdW) - 1 => wdOut = wdW

\* counttrail0 of a value with set bits above its trailing zeros.
C20_Witness ==
    /\ wdOp = "counttrail0"
    /\ wdW = 8
    /\ wdX = 104
    /\ wdOut = 3

\* C21: for every width and every non-zero x, x >> msb(x) == 1, so msb(x) is
\* the index of the highest set bit; msb(0) is the width.
C21_WordMsb ==
    wdOp = "msb" =>
        /\ wdX # 0 => wdOut < wdW /\ SHR(wdX, wdOut) = 1
        /\ wdX = 0 => wdOut = wdW

\* msb of a value whose highest set bit has an odd index and lower bits set.
C21_Witness ==
    /\ wdOp = "msb"
    /\ wdW = 8
    /\ wdX = 173
    /\ wdOut = 7

\* The smallest index p < N with bit p of arr equal to b, N when there is none.
FirstIndex(N, W, arr, b) ==
    CHOOSE k \in 0 .. N :
        /\ \A p \in 0 .. (k - 1) : StorageBit(W, arr, p) # b
        /\ k = N \/ StorageBit(W, arr, k) = b

\* C22: countTrail0(v) is the smallest index of a set bit of v, N when v is
\* all-zero; countTrail1(v) is the smallest index of a clear bit, N when all
\* N bits are set; neither exceeds N.
C22_VectorTrail ==
    /\ fnOp = "countTrail0" =>
          fnOut = FirstIndex(fnN, fnW, fnArr, 1) /\ fnOut <= fnN
    /\ fnOp = "countTrail1" =>
          fnOut = FirstIndex(fnN, fnW, fnArr, 0) /\ fnOut <= fnN

\* countTrail0 of the all-zero vector whose last chunk is truncated.
C22_Witness ==
    /\ fnOp = "countTrail0"
    /\ fnN = 3
    /\ fnW = 2
    /\ fnArr = (0 :> 0 @@ 1 :> 0)
    /\ fnOut = 3

\* C23: replace(i, src, width) with M <= N and width <= M leaves the vector
\* unchanged when i >= N; otherwise every bit k in [i, min(i+width, N)) is bit
\* k-i of src and every other bit, the padding at index >= N included, keeps
\* its value.
C23_Replace ==
    fnOp = "replace" =>
        LET i == fnArgs[1]
            src == fnArgs[3]
            wid == fnArgs[4]
        IN  /\ i >= fnN => fnOut = fnArr
            /\ i < fnN =>
                  \A k \in 0 .. (nchunks(fnN, fnW) * fnW - 1) :
                      StorageBit(fnW, fnOut, k) =
                          IF i <= k /\ k < i + wid /\ k < fnN
                          THEN StorageBit(fnW, src, k - i)
                          ELSE StorageBit(fnW, fnArr, k)

\* C24: bit k (k < n) of slice<n>(i) is bit i+k of the source when i+k < N
\* and 0 otherwise, for every i >= 0, for n < N and for n >= N.
C24_Slice ==
    fnOp = "slice" =>
        \A k \in 0 .. (fnArgs[1] - 1) :
            FnBit(fnW, fnOut, k) =
                (fnArgs[2] + k < fnN /\ FnBit(fnW, fnArr, fnArgs[2] + k))

---------------------------------------------------------------------------
(* Claims on the iterations of the decomposition (SpecPLU). *)

\* C25: an outer iteration whose column i is entirely zero changes no column
\* of the matrix and neither transform matrix; a step that changes the matrix
\* is an iteration i <= n-2 and changes a column only by XOR-ing column i
\* into it, so column n-1 is never a source; for n = 1 the decomposition
\* returns (identity, identity) with the matrix unchanged.
C25_SkipAndBoundary ==
    [][/\ (pluPc = "loop" /\ pluI + 1 < pluN
            /\ pluMat[pluI] = BitArray_default(pluM, pluW))
           => (pluMat' = pluMat /\ pluResult' = pluResult)
       /\ (pluMat' # pluMat \/ pluResult' # pluResult)
           => /\ pluI <= pluN - 2
              /\ \A j \in 0 .. (pluN - 1) :
                    \/ pluMat'[j] = pluMat[j]
                    \/ /\ j > pluI
                       /\ pluMat'[j] =
                              xor_assign(pluM, pluW, pluMat[j], pluMat[pluI])
       /\ (pluPc' = "done" /\ pluN = 1)
           => /\ pluMat' = pluMat0
              /\ pluResult' = [k \in 0 .. 1 |-> ident(1, pluW)]
      ]_vars

\* The iteration i = 0 found a zero column and was skipped while later
\* columns are not zero.
C25_Witness ==
    /\ pluPc = "loop"
    /\ pluI = 1
    /\ pluN = 3
    /\ pluMat[0] = BitArray_default(pluM, pluW)
    /\ pluMat[1] # BitArray_default(pluM, pluW)
    /\ pluMat[2] # BitArray_default(pluM, pluW)

\* C26: the transformation matrix tmat built by an iteration of the outer
\* loop is self-inverse: tmat * tmat is the identity.
C26_TmatSelfInverse ==
    pluTmat # <<>> =>
        matrix_mul("ColumnMajor", pluN, pluN, pluW, pluTmat, pluTmat)
            = ident(pluN, pluW)

\* The iteration i = 0 on three columns selected both later columns.
C26_Witness ==
    /\ pluTmat # <<>>
    /\ pluN = 3
    /\ pluI = 1
    /\ coeff(pluN, pluW, "ColumnMajor", pluTmat, 0, 1)
    /\ coeff(pluN, pluW, "ColumnMajor", pluTmat, 0, 2)

\* C29: an iteration i of the outer loop modifies only columns j > i and
\* leaves the pivot of column i as computed; in every state, for every
\* processed column i that is not zero, the pivot-row bit of every later
\* column is clear.
C29_FrozenColumns ==
    /\ [][pluPc = "loop" =>
            /\ \A c \in 0 .. (pluN - 1) : c <= pluI => pluMat'[c] = pluMat[c]
            /\ pivot(pluF, pluM, pluW, pluMat'[pluI])
                   = pivot(pluF, pluM, pluW, pluMat[pluI])
         ]_vars
    /\ [](pluPc \in {"loop", "done"} =>
            \A i \in 0 .. (pluN - 1) :
                LET piv == pivot(pluF, pluM, pluW, pluMat[i])
                IN  (i < pluI /\ piv # pluM) =>
                        \A j \in (i + 1) .. (pluN - 1) :
                            ~coeff(pluM, pluW, "ColumnMajor", pluMat, piv, j))

\* Two iterations have eliminated: the second one changed column 2 after the
\* first one had cleared its pivot-row bit.
C29_Witness ==
    /\ pluPc = "loop"
    /\ pluI = 2
    /\ pluN = 3
    /\ pluTmat # <<>>
    /\ coeff(pluN, pluW, "ColumnMajor", pluTmat, 1, 2)
    /\ pluMat[0] # BitArray_default(pluM, pluW)
    /\ pluMat[0] # pluMat0[0] \/ pluMat[2] # pluMat0[2]

\* C27: an iterator obtained from begin() compares equal to end() after
\* exactly count(v) applications of ++ and not earlier, so begin() == end()
\* exactly when v is all-zero; the chunk cursor only moves forward within a
\* range and never passes the last chunk; a second range over the same
\* vector yields the same sequence again.
C27_FiniteRestartable ==
    /\ [](popPc \in {"loop", "done"} =>
            /\ (popIt = PopEnd(popN, popW, popV))
                   = (Len(popSeen) = count(popN, popW, popV))
            /\ Len(popSeen) <= count(popN, popW, popV)
            /\ (PopBegin(popN, popW, popV) = PopEnd(popN, popW, popV))
                   = (popV = BitArray_default(popN, popW))
            /\ popIt.pos <= nchunks(popN, popW) - 1
            /\ (popPass = 2 /\ popPc = "done") => popSeen = popFirst)
    /\ [][(popPc = "loop" /\ popPass' = popPass) => popIt'.pos >= popIt.pos]_vars

\* The second range over a vector with set bits in two chunks has finished.
C27_Witness ==
    /\ popPc = "done"
    /\ popPass = 2
    /\ popW = 2
    /\ popFirst = <<1, 4>>
    /\ popSeen = <<1, 4>>

\* C28: a vector constructed from an unsigned integer x wider than the chunk
\* type, or assigned a chunk value x, has bit i equal to bit i of x for every
\* i < N and all padding bits at index >= N clear.
C28_IntegerWithinBits ==
    fnOp \in {"construct", "assign"} =>
        \A p \in 0 .. (nchunks(fnN, fnW) * fnW - 1) :
            StorageBit(fnW, fnOut, p) = IF p < fnN THEN Bit(fnArgs[2], p) ELSE 0

\* The XOR of the stored vectors M[k], k in S and k >= i.
RECURSIVE XorOfVecs(_, _, _, _, _)
XorOfVecs(NM, W, M, S, i) ==
    IF i >= nvecsOf(M) THEN BitArray_default(NM, W)
    ELSE LET rest == XorOfVecs(NM, W, M, S, i + 1)
         IN  IF i \in S THEN xor_assign(NM, W, rest, M[i]) ELSE rest

\* C30: v * M (RowMajor) and M * v (ColumnMajor) read stored vectors only at
\* indices below the number n of stored vectors, for every v, also one longer
\* than n with a set bit at an index >= n, and the result is the XOR of the
\* stored vectors at the set-bit indices of v.
C30_ProductInsideMatrix ==
    elOp = "mul_vec" =>
        /\ elRet.reads \subseteq DOMAIN elMat
        /\ elRet.result =
               XorOfVecs(elN, elW, elMat,
                         SetBits(elArgs[1], elW, elArgs[2]), 0)

=============================================================================
